---- MODULE Spec2Model ----
(***************************************************************************)
(* Cube-pruning search engine of the decoder: one destination              *)
(* BitmapContainer, its BackwardsEdges (priority queue over a K x K grid   *)
(* of predecessor-hypothesis x translation-option cells) and the owning    *)
(* HypothesisStack as the log of AddPrune calls.                           *)
(*                                                                         *)
(* Source: branches/mtm2_cube_pruning/moses/src/BitmapContainer.cpp.       *)
(* Grid coordinates are 0-based as in the source; TLA+ sequences are       *)
(* 1-based, so entry i of a vector is the sequence element i + 1.          *)
(***************************************************************************)
EXTENDS Integers, Sequences, FiniteSets, TLC

\* ------------------------------------------------------------------ bounds
\* KBestCubePruning: the K of the K x K grid (constructor argument).
KBestCubePruning == 2
\* At most this many backwards edges are added to the container.
MaxEdges == 2
\* At most this many removing Dequeue calls, and this many PushSuccessors
\* calls, per edge.
MaxOps == 3

\* ------------------------------------------------------------ value domains
Words == {0, 1, 2, 3}

\* The coverage bitmap of the predecessor container: every hypothesis of one
\* BitmapContainer has the container's bitmap.
PrevBitmap == {0}

\* A null Hypothesis pointer.
NullHypo ==
  [null |-> TRUE, score |-> 0, cov |-> {}, prev |-> {}, span |-> {}, lm |-> 0]

\* Scores a hypothesis can carry when it was built through a pointer read
\* beyond the end of a snapshot vector (the read is undefined behaviour): the
\* stale data need not respect the order of the grid, and can score above
\* every cell of the grid or below every one.
GarbageScores == {0 - 9, 1}

GarbageHypos ==
  { [null |-> FALSE, score |-> s, cov |-> {}, prev |-> {}, span |-> {}, lm |-> 0] :
      s \in GarbageScores }

\* SquarePosition(NULL, make_pair(-1, -1))
InvalidSquarePosition == [hyp |-> NullHypo, x |-> -1, y |-> -1]

\* ------------------------------------------------------------------ inputs
\* The hypothesis of rank i of the predecessor container (ordered by total
\* score, highest first).  From rank 1 on the language-model context differs
\* from that of rank 0.
PrevHypo(i, tie) ==
  [null |-> FALSE, score |-> IF tie THEN 0 ELSE 0 - i, cov |-> PrevBitmap,
   prev |-> {}, span |-> PrevBitmap, lm |-> IF i >= 1 THEN 1 ELSE 0]

\* The translation option of rank j of a translation option list (ordered by
\* option score, highest first).  special selects what the option of rank 0
\* or 1 deviates in:
\*   "linked"   rank 1 has one linked option that applies;
\*   "partial0" rank 0 has two linked options, the second overlapping the first;
\*   "partial1" rank 1 has two linked options, the second overlapping the first;
\*   "illegal"  rank 1 covers a word the predecessor already covers;
\*   "context"  rank 1 gets a contextual (language model) bonus when it joins
\*              a predecessor whose context is not that of rank 0; the bonus
\*              outweighs the score differences of the grid.
TransOpt(j, tie, special) ==
  [score  |-> IF tie THEN 0 ELSE 0 - 2 * j,
   span   |-> IF special = "illegal" /\ j = 1 THEN {0} ELSE {1},
   linked |-> IF special = "linked" /\ j = 1 THEN <<{2}>>
              ELSE IF (special = "partial0" /\ j = 0) \/ (special = "partial1" /\ j = 1)
                   THEN <<{2}, {2, 3}>>
                   ELSE <<>>,
   ctx    |-> IF special = "context" /\ j = 1 THEN 16 ELSE 0]

Specials == {"none", "linked", "partial0", "partial1", "illegal", "context"}

Lengths == 0 .. KBestCubePruning + 1

\* What an edge is constructed from: the predecessor container's hypotheses
\* and the translation option list.
EdgeInput(nh, no, tie, special) ==
  [hypotheses   |-> [i \in 1 .. nh |-> PrevHypo(i - 1, tie)],
   translations |-> [j \in 1 .. no |-> TransOpt(j - 1, tie, special)]]

\* The inputs explored: the full K x K grid with distinct scores and plain
\* options, and every input that deviates from it in one respect.
EdgeInputs ==
  { EdgeInput(KBestCubePruning, KBestCubePruning, FALSE, s) : s \in Specials }
  \cup { EdgeInput(KBestCubePruning, KBestCubePruning, TRUE, "none") }
  \cup { EdgeInput(n, KBestCubePruning, FALSE, "none") : n \in Lengths }
  \cup { EdgeInput(KBestCubePruning, n, FALSE, "none") : n \in Lengths }

Min(a, b) == IF a < b THEN a ELSE b

SubSeqTo(s, k) == [i \in 1 .. k |-> s[i]]

VARIABLES
  m_edges,    \* BitmapContainer::m_edges, in iteration order
  m_stack,    \* the hypotheses passed to m_stack.AddPrune, in call order
  m_hypotheses, \* BitmapContainer::m_hypotheses
  status,     \* "ok", or how the process ended: "segv", "abort", "throw"
  call,       \* what the last operation did
  staticData  \* the members of StaticData::s_instance that LoadData sets

vars == <<m_edges, m_stack, m_hypotheses, status, call, staticData>>

\* ------------------------------------------------------- hypothesis creation
Overlap(bitmap, range) == bitmap \cap range # {}

\* A linked translation option, which carries a span only.
LinkedOpt(range) == [score |-> 0, span |-> range, linked |-> <<>>, ctx |-> 0]

\* Hypothesis::CreateNext followed by CalcScore: the new hypothesis covers the
\* predecessor's words and the option's span; its total score is the
\* predecessor's plus the option's plus the contextual feature across the join.
CreateNext(hypothesis, transOpt) ==
  [null  |-> FALSE,
   score |-> hypothesis.score + transOpt.score + transOpt.ctx * hypothesis.lm,
   cov   |-> hypothesis.cov \cup transOpt.span,
   prev  |-> hypothesis.cov,
   span  |-> transOpt.span,
   lm    |-> hypothesis.lm]

\* Extending a hypothesis by a span it already covers is a programming error
\* that ends the process.
IllegalCoverage(hypothesis, transOpt) == Overlap(hypothesis.cov, transOpt.span)

\* The loop leaving at an overlapping linked option with what it has built.
RECURSIVE ExpandLinkedBreak(_, _, _)
ExpandLinkedBreak(newHypo, linked, i) ==
  IF i > Len(linked) THEN newHypo
  ELSE IF Overlap(newHypo.cov, linked[i]) THEN newHypo
  ELSE ExpandLinkedBreak(CreateNext(newHypo, LinkedOpt(linked[i])), linked, i + 1)

\* The loop without the overlap test.
RECURSIVE ExpandLinkedUnchecked(_, _, _)
ExpandLinkedUnchecked(newHypo, linked, i) ==
  IF i > Len(linked) THEN newHypo
  ELSE ExpandLinkedUnchecked(CreateNext(newHypo, LinkedOpt(linked[i])), linked, i + 1)

\* The loop over transOpt.GetLinkedTransOpts(), from the i-th linked option.
RECURSIVE ExpandLinked(_, _, _)
ExpandLinked(newHypo, linked, i) ==
  IF i > Len(linked) THEN newHypo
  ELSE IF Overlap(newHypo.cov, linked[i]) THEN NullHypo
  ELSE ExpandLinked(CreateNext(newHypo, LinkedOpt(linked[i])), linked, i + 1)

\* The CalcScore calls of lines 130 and 134, from the i-th linked option on:
\* for each call, the number of linked options the hypothesis it is made on
\* carries.
RECURSIVE CalcScores(_, _, _)
CalcScores(newHypo, linked, i) ==
  IF i > Len(linked) THEN <<i - 1>>
  ELSE IF Overlap(newHypo.cov, linked[i]) THEN <<>>
  ELSE <<i - 1>> \o CalcScores(CreateNext(newHypo, LinkedOpt(linked[i])), linked, i + 1)

\* BackwardsEdge::CreateHypothesis: [status, hyp, scored], hyp null when a
\* linked option overlaps, scored the CalcScore calls made.
CreateHypothesis(hypothesis, transOpt) ==
  IF IllegalCoverage(hypothesis, transOpt)
  THEN [status |-> "abort", hyp |-> NullHypo, scored |-> <<>>]
  ELSE [status |-> "ok",
        hyp |-> ExpandLinked(CreateNext(hypothesis, transOpt), transOpt.linked, 1),
        scored |-> CalcScores(CreateNext(hypothesis, transOpt), transOpt.linked, 1)]

\* -------------------------------------------------------------- the edge
SeenSlots == 0 .. KBestCubePruning * KBestCubePruning - 1

\* BackwardsEdge::BackwardsEdge: std::copy writes the first min(K, size)
\* entries into the storage reserve(k) obtained, where operator[] finds them;
\* kbest_hypotheses and kbest_translations are these entries.  reserve does
\* not change the size of a vector and std::copy through begin() does not
\* either, so size() of both vectors stays what it is for an empty vector:
\* sizes.  The other fields of the record are the history the properties
\* are stated over.
BackwardsEdge(hypotheses, translations) ==
  [kbest_hypotheses   |-> SubSeqTo(hypotheses, Min(KBestCubePruning, Len(hypotheses))),
   kbest_translations |-> SubSeqTo(translations, Min(KBestCubePruning, Len(translations))),
   sizes       |-> [kbest_hypotheses |-> 0, kbest_translations |-> 0],
   queue       |-> <<>>,
   seen        |-> [i \in SeenSlots |-> FALSE],
   initialized |-> FALSE,
   enqueued    |-> <<>>,   \* the cells Enqueue was called with, in call order
   popped      |-> <<>>,   \* the positions removed by Dequeue, in call order
   inits       |-> 0,      \* number of Initialize calls
   pushes      |-> 0,      \* number of PushSuccessors calls
   builds      |-> <<>>,   \* the cells CreateHypothesis was called for
   failed      |-> {},     \* the cells PushSuccessors got a null hypothesis for
   scored      |-> {},     \* the CalcScore calls CreateHypothesis made, see Scored
   freed       |-> <<>>,   \* the positions the destructor deleted, in order
   reads       |-> {}]     \* the vector reads of PushSuccessors: <<vector, x, y>>

\* m_kbest * x + y
SeenIndex(x, y) == KBestCubePruning * x + y

\* BackwardsEdge::SeenPosition: the possible values of m_seenPosition[K*x+y];
\* a read past the end of the vector can yield either value.
SeenPosition(edge, x, y) ==
  IF SeenIndex(x, y) \in SeenSlots THEN {edge.seen[SeenIndex(x, y)]} ELSE BOOLEAN

\* The queue is kept as the sequence in which the priority queue will yield
\* its elements: total score descending, and among elements of equal score
\* the one pushed earlier first.  The new element goes behind every element
\* whose score is not lower than its own.
Inserts(queue, pos) ==
  LET k == Cardinality({i \in 1 .. Len(queue) : queue[i].hyp.score >= pos.hyp.score})
  IN { [i \in 1 .. Len(queue) + 1 |->
          IF i <= k THEN queue[i] ELSE IF i = k + 1 THEN pos ELSE queue[i - 1]] }

\* Enqueue with m_queue taken as a plain first-in first-out queue: the new
\* position goes to the end whatever its score.
EnqueueAppended(edge, x, y, hypothesis) ==
  { [edge EXCEPT
       !.queue = Append(edge.queue, [hyp |-> hypothesis, x |-> x, y |-> y]),
       !.seen = IF SeenIndex(x, y) \in SeenSlots
                THEN [edge.seen EXCEPT ![SeenIndex(x, y)] = TRUE]
                ELSE edge.seen,
       !.enqueued = Append(edge.enqueued, <<x, y>>)] }

\* Enqueue without the mark in m_seenPosition.
EnqueueUnmarked(edge, x, y, hypothesis) ==
  { [edge EXCEPT !.queue = q, !.enqueued = Append(edge.enqueued, <<x, y>>)] :
    q \in Inserts(edge.queue, [hyp |-> hypothesis, x |-> x, y |-> y]) }

\* BackwardsEdge::Enqueue: the possible edges afterwards.  A write past the
\* end of m_seenPosition leaves the vector as it is.
Enqueue(edge, x, y, hypothesis) ==
  { [edge EXCEPT
       !.queue = q,
       !.seen = IF SeenIndex(x, y) \in SeenSlots
                THEN [edge.seen EXCEPT ![SeenIndex(x, y)] = TRUE]
                ELSE edge.seen,
       !.enqueued = Append(edge.enqueued, <<x, y>>)] :
    q \in Inserts(edge.queue, [hyp |-> hypothesis, x |-> x, y |-> y]) }

\* CreateHypothesis(*m_kbest_hypotheses[x], *m_kbest_translations[y]): the
\* possible results.  Reading a pointer past the end of a snapshot vector and
\* using it either ends the process or yields a hypothesis of stale data.
CreateHypothesisAt(edge, x, y) ==
  IF x < Len(edge.kbest_hypotheses) /\ y < Len(edge.kbest_translations)
  THEN {CreateHypothesis(edge.kbest_hypotheses[x + 1], edge.kbest_translations[y + 1])}
  ELSE {[status |-> "segv", hyp |-> NullHypo, scored |-> <<>>]}
       \cup {[status |-> "ok", hyp |-> g, scored |-> <<>>] : g \in GarbageHypos}

\* The history of CalcScore calls after the CreateHypothesis call for cell
\* (x, y) of the snapshots with result r: for each call the cell, the number
\* of linked options the scored hypothesis carried, the number of linked
\* options of the option, and whether the extension ended up null.
Scored(edge, x, y, r) ==
  edge.scored \cup
    { [x |-> x, y |-> y, carried |-> r.scored[k],
       linked |-> Len(edge.kbest_translations[y + 1].linked),
       null |-> r.hyp.null] : k \in 1 .. Len(r.scored) }

\* Initialize without line 89: m_initialized stays false.
InitializeUnflagged(edge) ==
  UNION { IF r.status # "ok"
          THEN {[edge |-> edge, status |-> r.status]}
          ELSE { [edge |-> [e EXCEPT !.seen = [e.seen EXCEPT ![0] = TRUE],
                                     !.inits = edge.inits + 1,
                                     !.builds = Append(edge.builds, <<0, 0>>),
                                     !.scored = Scored(edge, 0, 0, r)],
                  status |-> "ok"] :
                 e \in Enqueue(edge, 0, 0, r.hyp) } :
          r \in CreateHypothesisAt(edge, 0, 0) }

\* BackwardsEdge::Initialize: the possible [edge, status] afterwards.
Initialize(edge) ==
  UNION { IF r.status # "ok"
          THEN {[edge |-> edge, status |-> r.status]}
          ELSE { [edge |-> [e EXCEPT !.seen = [e.seen EXCEPT ![0] = TRUE],
                                     !.initialized = TRUE,
                                     !.inits = edge.inits + 1,
                                     !.builds = Append(edge.builds, <<0, 0>>),
                                     !.scored = Scored(edge, 0, 0, r)],
                  status |-> "ok"] :
                 e \in Enqueue(edge, 0, 0, r.hyp) } :
          r \in CreateHypothesisAt(edge, 0, 0) }

\* The same lines with the pop made before the top is read: the position
\* returned is the one behind the removed one.
TopAfterPop(edge, keepValue) ==
  IF edge.queue # <<>>
  THEN LET ret == IF keepValue \/ Len(edge.queue) = 1 THEN edge.queue[1] ELSE edge.queue[2]
       IN [edge |-> IF keepValue THEN edge
                    ELSE [edge EXCEPT !.queue = Tail(edge.queue),
                                      !.popped = Append(edge.popped, ret)],
           status |-> "ok",
           ret |-> ret]
  ELSE [edge |-> edge, status |-> "ok", ret |-> InvalidSquarePosition]

\* The same lines with the pop made whatever keepValue says.
TopPopping(edge, keepValue) ==
  IF edge.queue # <<>>
  THEN [edge |-> [edge EXCEPT !.queue = Tail(edge.queue),
                              !.popped = Append(edge.popped, Head(edge.queue))],
        status |-> "ok",
        ret |-> Head(edge.queue)]
  ELSE [edge |-> edge, status |-> "ok", ret |-> InvalidSquarePosition]

\* The same lines without the test of line 172: the top of an empty queue is
\* whatever the freed storage holds.
TopUnguarded(edge, keepValue) ==
  IF edge.queue # <<>>
  THEN [edge |-> IF keepValue THEN edge
                 ELSE [edge EXCEPT !.queue = Tail(edge.queue),
                                   !.popped = Append(edge.popped, Head(edge.queue))],
        status |-> "ok",
        ret |-> Head(edge.queue)]
  ELSE [edge |-> edge, status |-> "ok",
        ret |-> IF edge.popped # <<>> THEN edge.popped[Len(edge.popped)]
                ELSE [hyp |-> CHOOSE g \in GarbageHypos : TRUE, x |-> 0, y |-> 0]]

\* The lines of BackwardsEdge::Dequeue after the call of Initialize.
Top(edge, keepValue) ==
  IF edge.queue # <<>>
  THEN [edge |-> IF keepValue THEN edge
                 ELSE [edge EXCEPT !.queue = Tail(edge.queue),
                                   !.popped = Append(edge.popped, Head(edge.queue))],
        status |-> "ok",
        ret |-> Head(edge.queue)]
  ELSE [edge |-> edge, status |-> "ok", ret |-> InvalidSquarePosition]

\* Dequeue calling Initialize whether or not the edge is initialized.
DequeueReinitializing(edge, keepValue) ==
  { IF i.status = "ok" THEN Top(i.edge, keepValue)
    ELSE [edge |-> i.edge, status |-> i.status, ret |-> InvalidSquarePosition] :
    i \in Initialize(edge) }

\* BackwardsEdge::Dequeue: the possible [edge, status, ret].
Dequeue(edge, keepValue) ==
  IF ~edge.initialized
  THEN { IF i.status = "ok" THEN Top(i.edge, keepValue)
         ELSE [edge |-> i.edge, status |-> i.status, ret |-> InvalidSquarePosition] :
         i \in Initialize(edge) }
  ELSE {Top(edge, keepValue)}

\* One if-block of BackwardsEdge::PushSuccessors, for the neighbour (x, y):
\* the possible [edge, status] afterwards.
PushNeighbour(edge, x, y) ==
  LET looked == [edge EXCEPT !.reads = edge.reads \cup {<<"seen", x, y>>}]
      built  == [looked EXCEPT !.reads = looked.reads \cup {<<"hypo", x, y>>, <<"option", x, y>>},
                               !.builds = Append(looked.builds, <<x, y>>)]
  IN UNION { IF seen
             THEN {[edge |-> looked, status |-> "ok"]}
             ELSE UNION { IF r.status # "ok"
                          THEN {[edge |-> built, status |-> r.status]}
                          ELSE IF r.hyp.null
                          THEN {[edge |-> [built EXCEPT !.failed = built.failed \cup {<<x, y>>},
                                                        !.scored = Scored(built, x, y, r)],
                                 status |-> "ok"]}
                          ELSE {[edge |-> e, status |-> "ok"] :
                                e \in Enqueue([built EXCEPT !.scored = Scored(built, x, y, r)],
                                              x, y, r.hyp)} :
                          r \in CreateHypothesisAt(edge, x, y) } :
             seen \in SeenPosition(edge, x, y) }

\* PushSuccessors with a third neighbour, the diagonal one.
PushSuccessorsDiagonal(edge, x, y) ==
  UNION { IF second.status # "ok" THEN {second}
          ELSE PushNeighbour(second.edge, x + 1, y + 1) :
          second \in UNION { IF first.status # "ok" THEN {first}
                             ELSE PushNeighbour(first.edge, x + 1, y) :
                             first \in PushNeighbour([edge EXCEPT !.pushes = edge.pushes + 1],
                                                     x, y + 1) } }

\* BackwardsEdge::PushSuccessors: the possible [edge, status] afterwards.
PushSuccessors(edge, x, y) ==
  UNION { IF first.status # "ok" THEN {first}
          ELSE PushNeighbour(first.edge, x + 1, y) :
          first \in PushNeighbour([edge EXCEPT !.pushes = edge.pushes + 1], x, y + 1) }

\* ---------------------------------------------------------- the container
NoCall ==
  [op |-> "none", edge |-> 0, keep |-> FALSE, ret |-> InvalidSquarePosition,
   peeks |-> <<>>, events |-> <<>>, arg |-> <<>>]

\* The comparison of line 257 with >= for >.
BetterOrEqual(score, bestEdge, bestScore) == bestEdge = 0 \/ score >= bestScore

\* The comparison of line 257 with < for >.
Worse(score, bestEdge, bestScore) == bestEdge = 0 \/ score < bestScore

\* Line 257: whether the peeked score replaces the best so far.  bestEdge = 0
\* is the NULL of line 253, with which bestScore is minus infinity.
Better(score, bestEdge, bestScore) == bestEdge = 0 \/ score > bestScore

\* The loop of BitmapContainer::FindKBestHypotheses over m_edges, from the
\* i-th edge on: the possible [edges, status, bestEdge, bestScore, peeks].
\* Reading the total score through the null hypothesis of a peeked position
\* ends the process.
RECURSIVE SelectEdge(_, _, _, _, _)
SelectEdge(edges, i, bestEdge, bestScore, peeks) ==
  IF i > Len(edges)
  THEN {[edges |-> edges, status |-> "ok", bestEdge |-> bestEdge,
         bestScore |-> bestScore, peeks |-> peeks]}
  ELSE UNION {
         LET es == [edges EXCEPT ![i] = current.edge]
             ps == Append(peeks, current.ret)
         IN IF current.status # "ok"
            THEN {[edges |-> es, status |-> current.status, bestEdge |-> bestEdge,
                   bestScore |-> bestScore, peeks |-> peeks]}
            ELSE IF current.ret.hyp.null
            THEN {[edges |-> es, status |-> "segv", bestEdge |-> bestEdge,
                   bestScore |-> bestScore, peeks |-> ps]}
            ELSE IF Better(current.ret.hyp.score, bestEdge, bestScore)
            THEN SelectEdge(es, i + 1, i, current.ret.hyp.score, ps)
            ELSE SelectEdge(es, i + 1, bestEdge, bestScore, ps) :
         current \in Dequeue(edges[i], TRUE) }

\* The coordinates of the popped position taken in the wrong order.
SuccessorOfSwapped(pos) == <<pos.y, pos.x>>

\* Lines 285-288: the arguments of the PushSuccessors call.
SuccessorOf(pos) == <<pos.x, pos.y>>

\* Lines 263-288 with the PushSuccessors call of line 288 made on the first
\* edge of m_edges instead of bestEdge.
PopAndExpandFirst(sel, stack) ==
  IF sel.bestEdge = 0
  THEN {[edges |-> sel.edges, stack |-> stack, status |-> "abort",
         call |-> [NoCall EXCEPT !.op = "FindKBestHypotheses", !.peeks = sel.peeks]]}
  ELSE LET b    == sel.bestEdge
           pos  == Top(sel.edges[b], FALSE)
           bestHypo == pos.ret.hyp
           xy   == SuccessorOf(pos.ret)
           popped == [sel.edges EXCEPT ![b] = pos.edge]
       IN { [edges  |-> [popped EXCEPT ![1] = r.edge],
             stack  |-> Append(stack, bestHypo),
             status |-> r.status,
             call   |-> [op |-> "FindKBestHypotheses", edge |-> b, keep |-> FALSE,
                         ret |-> pos.ret, peeks |-> sel.peeks, arg |-> <<>>,
                         events |-> << <<"Dequeue", b, pos.ret>>,
                                       <<"AddPrune", bestHypo>>,
                                       <<"PushSuccessors", 1, xy[1], xy[2]>> >>]] :
            r \in PushSuccessors(popped[1], xy[1], xy[2]) }

\* Lines 263-288, after the loop chose bestEdge: the possible
\* [edges, stack, status, call].
PopAndExpand(sel, stack) ==
  IF sel.bestEdge = 0
  THEN {[edges |-> sel.edges, stack |-> stack, status |-> "abort",
         call |-> [NoCall EXCEPT !.op = "FindKBestHypotheses", !.peeks = sel.peeks]]}
  ELSE LET b    == sel.bestEdge
           pos  == Top(sel.edges[b], FALSE)
           bestHypo == pos.ret.hyp
           xy   == SuccessorOf(pos.ret)
       IN { [edges  |-> [sel.edges EXCEPT ![b] = r.edge],
             stack  |-> Append(stack, bestHypo),
             status |-> r.status,
             call   |-> [op |-> "FindKBestHypotheses", edge |-> b, keep |-> FALSE,
                         ret |-> pos.ret, peeks |-> sel.peeks, arg |-> <<>>,
                         events |-> << <<"Dequeue", b, pos.ret>>,
                                       <<"AddPrune", bestHypo>>,
                                       <<"PushSuccessors", b, xy[1], xy[2]>> >>]] :
            r \in PushSuccessors(pos.edge, xy[1], xy[2]) }

\* FindKBestHypotheses without the test of lines 249-250 for an empty m_edges.
FindKBestUnguarded(edges, stack) ==
  UNION { IF sel.status # "ok"
          THEN {[edges |-> sel.edges, stack |-> stack, status |-> sel.status,
                 call |-> [NoCall EXCEPT !.op = "FindKBestHypotheses",
                                         !.peeks = sel.peeks]]}
          ELSE PopAndExpand(sel, stack) :
          sel \in SelectEdge(edges, 1, 0, 0, <<>>) }

\* BitmapContainer::FindKBestHypotheses: the possible
\* [edges, stack, status, call] after one call.
FindKBest(edges, stack) ==
  IF edges = <<>>
  THEN {[edges |-> edges, stack |-> stack, status |-> "ok",
         call |-> [NoCall EXCEPT !.op = "FindKBestHypotheses"]]}
  ELSE UNION { IF sel.status # "ok"
               THEN {[edges |-> sel.edges, stack |-> stack, status |-> sel.status,
                      call |-> [NoCall EXCEPT !.op = "FindKBestHypotheses",
                                              !.peeks = sel.peeks]]}
               ELSE PopAndExpand(sel, stack) :
               sel \in SelectEdge(edges, 1, 0, 0, <<>>) }

\* m_bitmap: the coverage of the container, that of its predecessor container
\* and the span of the options of its edges.
m_bitmap == PrevBitmap \cup {1}

\* The max size of the stack (a configuration value) and the slack above it.
MaxHypoStackSize == 1
StackSlack == 1

\* The hypotheses the stack hands to this container through AddHypothesis:
\* the stack keeps its containers by coverage.
StackHypos ==
  { [null |-> FALSE, score |-> 0 - n, cov |-> m_bitmap, prev |-> PrevBitmap,
     span |-> m_bitmap \ PrevBitmap, lm |-> 0] :
      n \in 0 .. MaxHypoStackSize + StackSlack }

\* m_hypotheses.insert(hypothesis)
InsertHypothesis(hypotheses, hypothesis) == hypotheses \cup {hypothesis}

\* AddPrune that hands every hypothesis to this container.
AddPruneUnrouted(hypotheses, hypothesis) == InsertHypothesis(hypotheses, hypothesis)

\* What m_stack.AddPrune(bestHypo) does to the hypothesis set of this
\* container: the stack keeps its containers by coverage and hands the
\* hypothesis to the container of the hypothesis' coverage.
AddPrune(hypotheses, hypothesis) ==
  IF hypothesis.cov = m_bitmap THEN InsertHypothesis(hypotheses, hypothesis)
  ELSE hypotheses

\* ---------------------------------------------------------------- actions
\* -------------------------------------------------------------- StaticData
\* A parameter value or a token of a mapping line is a string, kept as the
\* sequence of its characters; a parameter is the vector of its values, empty
\* when the parameter is not given.
Digit == ("0" :> 0) @@ ("1" :> 1) @@ ("2" :> 2) @@ ("3" :> 3) @@ ("4" :> 4)
         @@ ("5" :> 5) @@ ("6" :> 6) @@ ("7" :> 7) @@ ("8" :> 8) @@ ("9" :> 9)

\* Scan<size_t> and Scan<int> on a string of decimal digits.
RECURSIVE Scan(_)
Scan(str) ==
  IF str = <<>> THEN 0
  ELSE 10 * Scan(SubSeqTo(str, Len(str) - 1)) + Digit[str[Len(str)]]

\* The values a boolean parameter is given on the command line or in the
\* configuration file, and one that Scan<bool> does not understand.
BoolStrings ==
  { <<"t", "r", "u", "e">>, <<"f", "a", "l", "s", "e">>, <<"1">>, <<"0">>, <<"x">> }

\* Scan<bool>: yes, y, true and 1 are true, everything else is false.
ScanBool(str) ==
  str \in { <<"y", "e", "s">>, <<"y">>, <<"t", "r", "u", "e">>, <<"1">> }

\* The most values a boolean parameter is followed with.
MaxBoolValues == 2

\* m_parameter->GetParam(parameterName) for a boolean parameter: NULL when
\* the parameter is not specified, its vector of values otherwise.
BoolParams ==
  { [null |-> TRUE, vec |-> <<>>] }
  \cup { [null |-> FALSE, vec |-> v] :
         v \in UNION { [1 .. n -> BoolStrings] : n \in 0 .. MaxBoolValues } }

\* SetBooleanParameter without the assignment of line 535: the default is
\* only used when the parameter is not specified.
SetBooleanParameterLate(parameter, params, defaultValue) ==
  IF params.null THEN defaultValue
  ELSE IF Len(params.vec) = 0 THEN TRUE
  ELSE IF Len(params.vec) = 1 THEN ScanBool(params.vec[1])
  ELSE parameter

\* StaticData::SetBooleanParameter: the value of the flag afterwards,
\* parameter being its value before.
SetBooleanParameter(parameter, params, defaultValue) ==
  LET defaulted == defaultValue
  IN IF params.null THEN defaulted
     ELSE IF Len(params.vec) = 0 THEN TRUE
     ELSE IF Len(params.vec) = 1 THEN ScanBool(params.vec[1])
     ELSE defaulted

\* The flags of StaticData that LoadData sets with SetBooleanParameter and
\* that are followed here.
BoolFlags == {"m_mbr", "m_useLatticeMBR", "m_useConsensusDecoding"}

\* InputTypeEnum, by the numbers LoadData compares m_inputType with.
SentenceInput == 0
WordLatticeInput == 2

\* The longest mapping vector followed.
MaxLines == 2

\* PhraseDictionary::GetColl().size() and GenerationDictionary::GetColl().size()
\* after LoadFeatureFunctions.
NumPhraseDictionaries == 1
NumGenerationDictionaries == 1

\* Tokenize(mappingVector[i]) for the lines followed: "T 0", "G 1", "1 T 0",
\* ..., and a line of one token.
MappingTokens ==
  { <<t, n>> : t \in {<<"T">>, <<"G">>}, n \in {<<"0">>, <<"1">>} }
  \cup { <<g, t, n>> : g \in {<<"0">>, <<"1">>, <<"2">>}, t \in {<<"T">>, <<"G">>},
                        n \in {<<"0">>, <<"1">>} }
  \cup { << <<"T">> >> }

MappingVectors == UNION { [1 .. n -> MappingTokens] : n \in 0 .. MaxLines }

\* StaticData::s_instance after its constructor: a static object, its
\* members without initializer are zero.
StaticData ==
  [m_inputType |-> SentenceInput, m_maxDistortion |-> 0,
   m_minHypoStackDiversity |-> 0, m_decodeGraphs |-> <<>>,
   m_mbr |-> FALSE, m_useLatticeMBR |-> FALSE, m_useConsensusDecoding |-> FALSE,
   m_threadCount |-> 0, m_allWeights |-> <<>>,
   m_weightSetting |-> <<>>, m_weightSettingIgnoreFF |-> <<>>,
   ids |-> <<>>,       \* the id lines that set currentId: line, id
   assigned |-> <<>>,  \* the Assign calls of line 1073: line, id, name, weights
   adds |-> <<>>]   \* the DecodeGraph::Add calls of line 705: graph index, size of m_decodeGraphs

\* The loop of StaticData::LoadDecodeGraphs from line i of the mapping vector
\* on, search algorithm not chart: the possible [sd, status, ret].  The steps
\* are numbered by their line; prev = 0 is NULL.  m_decodeGraphs[decodeGraphInd]
\* beyond the end of the vector is a stray pointer: the call through it ends
\* the process or writes somewhere else.
RECURSIVE LoadDecodeGraphsFrom(_, _, _, _, _)
LoadDecodeGraphsFrom(sd, mappingVector, i, prev, prevDecodeGraphInd) ==
  IF i > Len(mappingVector)
  THEN {[sd |-> sd, status |-> "ok", ret |-> TRUE]}
  ELSE LET token == mappingVector[i]
           n == Len(token)
           decodeGraphInd == IF n = 2 THEN 0 ELSE Scan(token[1])
           decodeType == IF token[n - 1] = <<"T">> THEN "Translate" ELSE "Generate"
           index == Scan(token[n])
           prevStep == IF n = 3 /\ decodeGraphInd > prevDecodeGraphInd THEN 0 ELSE prev
           decodeStep == [type |-> decodeType, index |-> index, prev |-> prevStep, line |-> i]
           graphs == IF Len(sd.m_decodeGraphs) < decodeGraphInd + 1
                     THEN Append(sd.m_decodeGraphs,
                                 [id |-> Len(sd.m_decodeGraphs), steps |-> <<>>])
                     ELSE sd.m_decodeGraphs
           adds == Append(sd.adds, [graph |-> decodeGraphInd, size |-> Len(graphs)])
           thrown == {[sd |-> sd, status |-> "throw", ret |-> FALSE]}
       IN IF n # 2 /\ n # 3 THEN thrown
          ELSE IF n = 3 /\ decodeGraphInd # prevDecodeGraphInd
                        /\ decodeGraphInd # prevDecodeGraphInd + 1 THEN thrown
          ELSE IF decodeType = "Translate" /\ index >= NumPhraseDictionaries THEN thrown
          ELSE IF decodeType = "Generate" /\ index >= NumGenerationDictionaries THEN thrown
          ELSE IF decodeGraphInd < Len(graphs)
          THEN LoadDecodeGraphsFrom(
                 [sd EXCEPT !.m_decodeGraphs =
                              [graphs EXCEPT ![decodeGraphInd + 1].steps =
                                               Append(graphs[decodeGraphInd + 1].steps, decodeStep)],
                            !.adds = adds],
                 mappingVector, i + 1, i, decodeGraphInd)
          ELSE {[sd |-> [sd EXCEPT !.m_decodeGraphs = graphs, !.adds = adds],
                 status |-> "segv", ret |-> FALSE]}
               \cup LoadDecodeGraphsFrom(
                      [sd EXCEPT !.m_decodeGraphs = graphs, !.adds = adds],
                      mappingVector, i + 1, i, decodeGraphInd)

\* StaticData::LoadDecodeGraphs
LoadDecodeGraphs(sd, param) == LoadDecodeGraphsFrom(sd, param.mapping, 1, 0, 0)

\* Tokenize(str, sep) for a separator of one character: the pieces of str
\* between separators, empty pieces left out.
RECURSIVE TokenizeFrom(_, _, _, _)
TokenizeFrom(str, sep, i, piece) ==
  IF i > Len(str) THEN (IF piece = <<>> THEN <<>> ELSE <<piece>>)
  ELSE IF str[i] = sep
  THEN (IF piece = <<>> THEN <<>> ELSE <<piece>>) \o TokenizeFrom(str, sep, i + 1, <<>>)
  ELSE TokenizeFrom(str, sep, i + 1, Append(piece, str[i]))

Tokenize(str, sep) == TokenizeFrom(str, sep, 1, <<>>)

IdPrefix == <<"i", "d", "=">>
DefaultId == <<"d", "e", "f", "a", "u", "l", "t">>
IgnoreFF == <<"i", "g", "n", "o", "r", "e", "-", "f", "f">>

\* weightSpecification[i].find("id=") == 0, the line given by its tokens.
IsIdLine(line) ==
  /\ line # <<>>
  /\ Len(line[1]) >= Len(IdPrefix)
  /\ SubSeqTo(line[1], Len(IdPrefix)) = IdPrefix

\* The descriptions of the feature functions loaded (nameToFF), and the main
\* weights LoadFeatureFunctions leaves in m_allWeights.
FeatureNames == { <<"f">> }
MainWeights == [name \in FeatureNames |-> <<7>>]

\* What a string read past the end of a vector of strings can hold.
GarbageStrings == { <<>>, DefaultId, <<"a">>, <<"z">> }

\* map[key] = value
Put(map, key, value) ==
  [k \in DOMAIN map \cup {key} |-> IF k = key THEN value ELSE map[k]]

\* The longest alternate weight specification followed.
MaxWeightLines == 3

\* The lines of the alternate-weight-setting parameter followed, as
\* Tokenize(weightSpecification[i]) yields them: "id=a", "id=b", "id=default",
\* "id=", "id=a ignore-ff=f", "id=b ignore-ff=g", "f= 1", "f= 2 3", "g= 1", "f=".
WeightLines ==
  { << IdPrefix \o <<"a">> >>, << IdPrefix \o <<"b">> >>, << IdPrefix \o DefaultId >>,
    << IdPrefix >>,
    << IdPrefix \o <<"a">>, IgnoreFF \o <<"=", "f">> >>,
    << IdPrefix \o <<"b">>, IgnoreFF \o <<"=", "g">> >>,
    << <<"f", "=">>, <<"1">> >>, << <<"f", "=">>, <<"2">>, <<"3">> >>,
    << <<"g", "=">>, <<"1">> >>, << <<"f", "=">> >> }

WeightSpecifications == UNION { [1 .. n -> WeightLines] : n \in 1 .. MaxWeightLines }

\* Lines 1012-1046 for the tokens of an id line from the j-th on, weight-file
\* specifications not followed: [sd, hasErrors] afterwards.
RECURSIVE OtherSpecifications(_, _, _, _, _)
OtherSpecifications(sd, currentId, tokens, j, hasErrors) ==
  IF j > Len(tokens) THEN [sd |-> sd, hasErrors |-> hasErrors]
  ELSE LET args == Tokenize(tokens[j], "=")
       IN IF args[1] = IgnoreFF
          THEN LET featureFunctionName == Tokenize(args[2], ",")
                   valid == { featureFunctionName[k] : k \in 1 .. Len(featureFunctionName) }
                              \cap FeatureNames
                   invalid == \E k \in 1 .. Len(featureFunctionName) :
                                featureFunctionName[k] \notin FeatureNames
               IN OtherSpecifications(
                    [sd EXCEPT !.m_weightSettingIgnoreFF = Put(@, currentId, valid)],
                    currentId, tokens, j + 1, hasErrors \/ invalid)
          ELSE OtherSpecifications(sd, currentId, tokens, j + 1, hasErrors)

\* Lines 1053-1074 with the weights assigned to the setting "default"
\* instead of the setting of currentId.
WeightLineToDefault(sd, line, i, currentId, hasErrors) ==
  LET tokens == line
      name == SubSeqTo(tokens[1], Len(tokens[1]) - 1)
      weights == [k \in 1 .. Len(tokens) - 1 |-> Scan(tokens[k + 1])]
  IN IF currentId = <<>> THEN [sd |-> sd, status |-> "throw", hasErrors |-> hasErrors]
     ELSE IF Len(tokens) < 2 THEN [sd |-> sd, status |-> "throw", hasErrors |-> hasErrors]
     ELSE IF name \notin FeatureNames THEN [sd |-> sd, status |-> "ok", hasErrors |-> TRUE]
     ELSE [sd |-> [sd EXCEPT
                     !.m_weightSetting =
                        Put(@, DefaultId, Put(sd.m_weightSetting[DefaultId], name, weights)),
                     !.assigned = Append(@, [line |-> i, id |-> DefaultId, name |-> name,
                                             weights |-> weights])],
           status |-> "ok", hasErrors |-> hasErrors]

\* Lines 1053-1074, a weight line: [sd, status, hasErrors] afterwards.
WeightLine(sd, line, i, currentId, hasErrors) ==
  LET tokens == line
      name == SubSeqTo(tokens[1], Len(tokens[1]) - 1)
      weights == [k \in 1 .. Len(tokens) - 1 |-> Scan(tokens[k + 1])]
  IN IF currentId = <<>> THEN [sd |-> sd, status |-> "throw", hasErrors |-> hasErrors]
     ELSE IF Len(tokens) < 2 THEN [sd |-> sd, status |-> "throw", hasErrors |-> hasErrors]
     ELSE IF name \notin FeatureNames THEN [sd |-> sd, status |-> "ok", hasErrors |-> TRUE]
     ELSE [sd |-> [sd EXCEPT
                     !.m_weightSetting =
                        Put(@, currentId, Put(sd.m_weightSetting[currentId], name, weights)),
                     !.assigned = Append(@, [line |-> i, id |-> currentId, name |-> name,
                                             weights |-> weights])],
           status |-> "ok", hasErrors |-> hasErrors]

\* The loop of StaticData::LoadAlternateWeightSettings from line i of the
\* specification on: the possible [sd, status, ret].  args[1] of an id line
\* without an id is a read past the end of args: the process ends, or
\* currentId is what the storage holds.
RECURSIVE AlternateWeightsFrom(_, _, _, _, _)
AlternateWeightsFrom(sd, weightSpecification, i, currentId, hasErrors) ==
  IF i > Len(weightSpecification)
  THEN {[sd |-> sd, status |-> IF hasErrors THEN "throw" ELSE "ok", ret |-> ~hasErrors]}
  ELSE LET line == weightSpecification[i]
       IN IF IsIdLine(line)
          THEN LET args == Tokenize(line[1], "=")
                   read == Len(args) >= 2
                   idsRead == IF read THEN {args[2]} ELSE GarbageStrings
               IN (IF read THEN {} ELSE {[sd |-> sd, status |-> "segv", ret |-> FALSE]})
                  \cup UNION {
                    IF id \in DOMAIN sd.m_weightSetting
                    THEN {[sd |-> sd, status |-> "throw", ret |-> FALSE]}
                    ELSE LET created == [sd EXCEPT !.m_weightSetting = Put(@, id, <<>>),
                                                   !.ids = Append(@, [line |-> i, id |-> id])]
                             o == OtherSpecifications(created, id, line, 2, hasErrors)
                         IN AlternateWeightsFrom(o.sd, weightSpecification, i + 1, id,
                                                 o.hasErrors) :
                    id \in idsRead }
          ELSE LET w == WeightLine(sd, line, i, currentId, hasErrors)
               IN IF w.status # "ok"
                  THEN {[sd |-> w.sd, status |-> w.status, ret |-> FALSE]}
                  ELSE AlternateWeightsFrom(w.sd, weightSpecification, i + 1, currentId,
                                            w.hasErrors)

\* StaticData::LoadAlternateWeightSettings
LoadAlternateWeightSettings(sd, param) ==
  IF sd.m_threadCount > 1
  THEN {[sd |-> sd, status |-> "ok", ret |-> FALSE]}
  ELSE AlternateWeightsFrom(
         [sd EXCEPT !.m_weightSetting = Put(@, DefaultId, sd.m_allWeights)],
         param.alternate_weight_setting, 1, <<>>, FALSE)

\* The parameters LoadData is followed on, and whether the build defines
\* WITH_THREADS; every other parameter is absent and the weights match the
\* feature functions.  Three families are followed, each with the parameters
\* of the other two absent: the pruning and mapping parameters, the three
\* decoding flags, and the threads with the alternate weight settings.
NoBoolParam == [null |-> TRUE, vec |-> <<>>]

GivenBoolParams == { p \in BoolParams : Len(p.vec) <= 1 }

Parameters ==
  [ inputtype : {<<>>, << <<"0">> >>, << <<"2">> >>},
    distortion_limit : {<<>>, << <<"1", "5">> >>, << <<"1", "6">> >>},
    stack_diversity : {<<>>, << <<"0">> >>, << <<"3">> >>},
    mapping : MappingVectors,
    minimum_bayes_risk : {NoBoolParam},
    lminimum_bayes_risk : {NoBoolParam},
    consensus_decoding : {NoBoolParam},
    threads : {<<>>}, WITH_THREADS : {TRUE},
    alternate_weight_setting : {<<>>} ]
  \cup
  [ inputtype : {<<>>}, distortion_limit : {<<>>}, stack_diversity : {<<>>},
    mapping : {<<>>},
    minimum_bayes_risk : GivenBoolParams,
    lminimum_bayes_risk : GivenBoolParams,
    consensus_decoding : GivenBoolParams,
    threads : {<<>>}, WITH_THREADS : {TRUE},
    alternate_weight_setting : {<<>>} ]
  \cup
  [ inputtype : {<<>>}, distortion_limit : {<<>>}, stack_diversity : {<<>>},
    mapping : {<<>>},
    minimum_bayes_risk : {NoBoolParam},
    lminimum_bayes_risk : {NoBoolParam},
    consensus_decoding : {NoBoolParam},
    threads : {<<>>, << <<"0">> >>, << <<"1">> >>, << <<"2">> >>},
    WITH_THREADS : BOOLEAN,
    alternate_weight_setting : {<<>>} \cup WeightSpecifications ]

\* Lines 496-527 of StaticData::LoadData: the possible [sd, status, ret, at].
LoadGraphsAndWeights(sd, param) ==
  UNION { IF r.status # "ok" \/ ~r.ret
          THEN {[sd |-> r.sd, status |-> r.status, ret |-> FALSE, at |-> "mapping"]}
          ELSE IF param.alternate_weight_setting = <<>>
          THEN {[sd |-> r.sd, status |-> "ok", ret |-> TRUE, at |-> "end"]}
          ELSE { [sd |-> w.sd, status |-> w.status, ret |-> w.ret,
                  at |-> IF w.status = "ok" /\ w.ret THEN "end"
                         ELSE "alternate-weight-setting"] :
                 w \in LoadAlternateWeightSettings(r.sd, param) } :
          r \in LoadDecodeGraphs(sd, param) }

\* Lines 410-437 of StaticData::LoadData, "threads all" not followed, and
\* LoadFeatureFunctions (line 493), then the rest.
LoadThreads(sd, param) ==
  LET one == [sd EXCEPT !.m_threadCount = 1]
      counted == IF param.threads # <<>>
                 THEN [one EXCEPT !.m_threadCount = Scan(param.threads[1])]
                 ELSE one
      failed == {[sd |-> counted, status |-> "ok", ret |-> FALSE, at |-> "threads"]}
  IN IF param.threads # <<>> /\ counted.m_threadCount < 1 THEN failed
     ELSE IF param.threads # <<>> /\ ~param.WITH_THREADS /\ counted.m_threadCount > 1
     THEN failed
     ELSE LoadGraphsAndWeights([counted EXCEPT !.m_allWeights = MainWeights], param)

\* Lines 357-390 without line 371 (if (m_useLatticeMBR) m_mbr = true).
LoadDecodingFlagsApart(sd, param) ==
  LET mbr == [sd EXCEPT !.m_mbr = SetBooleanParameter(@, param.minimum_bayes_risk, FALSE)]
      lattice == [mbr EXCEPT !.m_useLatticeMBR =
                               SetBooleanParameter(@, param.lminimum_bayes_risk, FALSE)]
      consensus == [lattice EXCEPT !.m_useConsensusDecoding =
                                     SetBooleanParameter(@, param.consensus_decoding, FALSE)]
  IN IF lattice.m_useLatticeMBR /\ lattice.m_mbr
     THEN {[sd |-> lattice, status |-> "ok", ret |-> FALSE, at |-> "lminimum-bayes-risk"]}
     ELSE IF consensus.m_useConsensusDecoding /\ consensus.m_mbr
     THEN {[sd |-> consensus, status |-> "exit", ret |-> FALSE, at |-> "consensus-decoding"]}
     ELSE LoadThreads(IF consensus.m_useConsensusDecoding
                      THEN [consensus EXCEPT !.m_mbr = TRUE] ELSE consensus,
                      param)

\* Lines 357-390 of StaticData::LoadData, then the rest.
LoadDecodingFlags(sd, param) ==
  LET mbr == [sd EXCEPT !.m_mbr = SetBooleanParameter(@, param.minimum_bayes_risk, FALSE)]
      lattice == [mbr EXCEPT !.m_useLatticeMBR =
                               SetBooleanParameter(@, param.lminimum_bayes_risk, FALSE)]
      lmbr == IF lattice.m_useLatticeMBR THEN [lattice EXCEPT !.m_mbr = TRUE] ELSE lattice
      consensus == [lmbr EXCEPT !.m_useConsensusDecoding =
                                  SetBooleanParameter(@, param.consensus_decoding, FALSE)]
  IN IF lattice.m_useLatticeMBR /\ lattice.m_mbr
     THEN {[sd |-> lattice, status |-> "ok", ret |-> FALSE, at |-> "lminimum-bayes-risk"]}
     ELSE IF consensus.m_useConsensusDecoding /\ consensus.m_mbr
     THEN {[sd |-> consensus, status |-> "exit", ret |-> FALSE, at |-> "consensus-decoding"]}
     ELSE LoadThreads(IF consensus.m_useConsensusDecoding
                      THEN [consensus EXCEPT !.m_mbr = TRUE] ELSE consensus,
                      param)

\* StaticData::LoadData for the parameters followed: the possible
\* [sd, status, ret, at], at being the place of the return.
LoadDataOn(sd, param) ==
  LET typed == [sd EXCEPT !.m_inputType =
                            IF param.inputtype # <<>> THEN Scan(param.inputtype[1])
                            ELSE SentenceInput]
      limited == [typed EXCEPT !.m_maxDistortion =
                                 IF param.distortion_limit # <<>>
                                 THEN Scan(param.distortion_limit[1]) ELSE 0 - 1,
                               !.m_minHypoStackDiversity = 0]
  IN IF param.stack_diversity # <<>> /\ limited.m_maxDistortion > 15
     THEN {[sd |-> limited, status |-> "ok", ret |-> FALSE, at |-> "stack-diversity"]}
     ELSE IF param.stack_diversity # <<>> /\ limited.m_inputType = WordLatticeInput
     THEN {[sd |-> limited, status |-> "ok", ret |-> FALSE, at |-> "stack-diversity"]}
     ELSE LET diverse == IF param.stack_diversity # <<>>
                         THEN [limited EXCEPT !.m_minHypoStackDiversity =
                                                Scan(param.stack_diversity[1])]
                         ELSE limited
          IN LoadDecodingFlags(diverse, param)

Init ==
  /\ m_edges = <<>>
  /\ m_stack = <<>>
  /\ m_hypotheses = {}
  /\ status = "ok"
  /\ call = NoCall
  /\ staticData = StaticData

Untouched == \A i \in 1 .. Len(m_edges) : ~m_edges[i].initialized /\ m_edges[i].pushes = 0

\* BackwardsEdgeSet::insert: the set iterates in insertion order.
InsertEdge(edges, edge) == Append(edges, edge)

\* BitmapContainer::AddBackwardsEdge with a newly constructed edge.  The
\* edges of a container are registered before its search starts.
AddBackwardsEdge ==
  /\ status = "ok"
  /\ Len(m_edges) < MaxEdges
  /\ Untouched
  /\ \E in \in EdgeInputs :
       /\ m_edges' = InsertEdge(m_edges, BackwardsEdge(in.hypotheses, in.translations))
       /\ call' = [NoCall EXCEPT !.op = "AddBackwardsEdge", !.edge = Len(m_edges) + 1,
                                 !.arg = in]
  /\ UNCHANGED <<m_stack, m_hypotheses, status, staticData>>

WithinOps(edge) == Len(edge.popped) < MaxOps /\ edge.pushes < MaxOps

FindKBestHypotheses ==
  /\ status = "ok"
  /\ \A i \in 1 .. Len(m_edges) : WithinOps(m_edges[i])
  /\ \E r \in FindKBest(m_edges, m_stack) :
       /\ m_edges' = r.edges
       /\ m_stack' = r.stack
       /\ m_hypotheses' = IF r.stack = m_stack THEN m_hypotheses
                          ELSE AddPrune(m_hypotheses, r.stack[Len(r.stack)])
       /\ status' = r.status
       /\ call' = r.call
  /\ UNCHANGED staticData

\* BitmapContainer::AddHypothesis, called by the stack with a hypothesis of
\* the container's coverage.  The set is followed until it holds one
\* hypothesis more than the stack's max size plus slack.
AddHypothesis ==
  /\ status = "ok"
  /\ Cardinality(m_hypotheses) <= MaxHypoStackSize + StackSlack
  /\ \E hypothesis \in StackHypos :
       /\ m_hypotheses' = InsertHypothesis(m_hypotheses, hypothesis)
       /\ call' = [NoCall EXCEPT !.op = "AddHypothesis", !.arg = hypothesis]
  /\ UNCHANGED <<m_edges, m_stack, status, staticData>>

\* peek(): Dequeue(true) on one edge.
Peek ==
  /\ status = "ok"
  /\ \E i \in 1 .. Len(m_edges) : \E r \in Dequeue(m_edges[i], TRUE) :
       /\ m_edges' = [m_edges EXCEPT ![i] = r.edge]
       /\ status' = r.status
       /\ call' = [NoCall EXCEPT !.op = "Dequeue", !.edge = i, !.keep = TRUE,
                                 !.ret = r.ret]
  /\ UNCHANGED <<m_stack, m_hypotheses, staticData>>

\* pop(): Dequeue(false) on one edge.
Pop ==
  /\ status = "ok"
  /\ \E i \in 1 .. Len(m_edges) :
       /\ Len(m_edges[i].popped) < MaxOps
       /\ \E r \in Dequeue(m_edges[i], FALSE) :
            /\ m_edges' = [m_edges EXCEPT ![i] = r.edge]
            /\ status' = r.status
            /\ call' = [NoCall EXCEPT !.op = "Dequeue", !.edge = i, !.ret = r.ret]
  /\ UNCHANGED <<m_stack, m_hypotheses, staticData>>

\* push_successors on a position the edge has popped.
Push ==
  /\ status = "ok"
  /\ \E i \in 1 .. Len(m_edges) :
       /\ m_edges[i].pushes < MaxOps
       /\ \E k \in 1 .. Len(m_edges[i].popped) :
            LET pos == m_edges[i].popped[k]
            IN \E r \in PushSuccessors(m_edges[i], pos.x, pos.y) :
                 /\ m_edges' = [m_edges EXCEPT ![i] = r.edge]
                 /\ status' = r.status
                 /\ call' = [NoCall EXCEPT !.op = "PushSuccessors", !.edge = i,
                                           !.ret = pos]
  /\ UNCHANGED <<m_stack, m_hypotheses, staticData>>

\* StaticData::LoadData, called once at startup.
LoadData ==
  /\ status = "ok"
  /\ call.op = "none"
  /\ \E param \in Parameters : \E r \in LoadDataOn(staticData, param) :
       /\ staticData' = r.sd
       /\ status' = r.status
       /\ call' = [NoCall EXCEPT !.op = "LoadData", !.arg = param,
                                 !.ret = [ret |-> r.ret, at |-> r.at]]
  /\ UNCHANGED <<m_edges, m_stack, m_hypotheses>>

\* One call of StaticData::SetBooleanParameter on a flag of s_instance.
SetBooleanParameterCall ==
  /\ status = "ok"
  /\ \E flag \in BoolFlags : \E params \in BoolParams : \E defaultValue \in BOOLEAN :
       /\ staticData' = [staticData EXCEPT
                           ![flag] = SetBooleanParameter(staticData[flag], params, defaultValue)]
       /\ call' = [NoCall EXCEPT !.op = "SetBooleanParameter",
                                 !.arg = [flag |-> flag, params |-> params,
                                          defaultValue |-> defaultValue]]
  /\ UNCHANGED <<m_edges, m_stack, m_hypotheses, status>>

\* The search of one container: its edges are registered, then
\* FindKBestHypotheses is called again and again.
Next ==
  \/ AddBackwardsEdge
  \/ FindKBestHypotheses

Spec == Init /\ [][Next]_vars

\* The loop of BackwardsEdge::~BackwardsEdge from the value q_iter of its
\* counter on: each turn deletes the top position and pops it, and the
\* condition compares the growing counter with the shrinking size of the
\* queue.  What is left in the queue when the loop ends is dropped with the
\* queue, the positions it points to are not deleted.
RECURSIVE DestructorLoop(_, _)
DestructorLoop(edge, q_iter) ==
  IF q_iter < Len(edge.queue)
  THEN DestructorLoop([edge EXCEPT !.freed = Append(edge.freed, Head(edge.queue)),
                                   !.queue = Tail(edge.queue)],
                      q_iter + 1)
  ELSE edge

\* BackwardsEdge::~BackwardsEdge
Destructor(edge) == DestructorLoop(edge, 0)

\* delete of an edge (RemoveAllInColl(m_edges) in ~BitmapContainer): the life
\* of the edge ends, no operation follows.
Destroy ==
  /\ status = "ok"
  /\ \E i \in 1 .. Len(m_edges) :
       /\ m_edges' = [m_edges EXCEPT ![i] = Destructor(m_edges[i])]
       /\ call' = [NoCall EXCEPT !.op = "~BackwardsEdge", !.edge = i]
  /\ status' = "destroyed"
  /\ UNCHANGED <<m_stack, m_hypotheses, staticData>>

\* One backwards edge under every sequence of its public operations.
EdgeInit ==
  /\ \E in \in EdgeInputs : m_edges = <<BackwardsEdge(in.hypotheses, in.translations)>>
  /\ m_stack = <<>>
  /\ m_hypotheses = {}
  /\ status = "ok"
  /\ call = NoCall
  /\ staticData = StaticData

EdgeNext ==
  \/ Peek
  \/ Pop
  \/ Push

EdgeSpec == EdgeInit /\ [][EdgeNext]_vars

\* One backwards edge from its construction to its destruction.
LifeNext ==
  \/ Peek
  \/ Pop
  \/ Push
  \/ Destroy

LifeSpec == EdgeInit /\ [][LifeNext]_vars

\* The start of the decoder: the configuration is loaded.
LoadNext ==
  \/ LoadData

LoadSpec == Init /\ [][LoadNext]_vars

\* The flags of the configuration under every sequence of SetBooleanParameter
\* calls.
FlagNext ==
  \/ SetBooleanParameterCall

FlagSpec == Init /\ [][FlagNext]_vars

\* One container with no edge or with one edge, its hypothesis set filled by
\* the stack and by its own search.
ContainerInit ==
  /\ \/ m_edges = <<>>
     \/ \E in \in EdgeInputs : m_edges = <<BackwardsEdge(in.hypotheses, in.translations)>>
  /\ m_stack = <<>>
  /\ m_hypotheses = {}
  /\ status = "ok"
  /\ call = NoCall
  /\ staticData = StaticData

ContainerNext ==
  \/ AddHypothesis
  \/ FindKBestHypotheses

ContainerSpec == ContainerInit /\ [][ContainerNext]_vars

\* ------------------------------------------------------------------ claims
EdgeIds == 1 .. Len(m_edges)

\* The cells of the K x K grid.
Grid == (0 .. KBestCubePruning - 1) \X (0 .. KBestCubePruning - 1)

\* The cells both snapshots have an entry for.
InSnapshots(edge, x, y) ==
  /\ 0 <= x /\ x < Len(edge.kbest_hypotheses)
  /\ 0 <= y /\ y < Len(edge.kbest_translations)

\* No option of the edge carries a contextual feature: the total score of a
\* cell is the predecessor's score plus the option's score.
NoContext(edge) ==
  \A j \in 1 .. Len(edge.kbest_translations) : edge.kbest_translations[j].ctx = 0

NonIncreasing(positions) ==
  \A k \in 1 .. Len(positions) - 1 :
    positions[k].hyp.score >= positions[k + 1].hyp.score

\* C1: on every edge whose cell scores are sums of a component per axis, the
\* positions popped by successive FindKBestHypotheses cycles (each pop followed
\* by PushSuccessors on the popped position) are non-increasing in total score.
C1_PopsNonIncreasing ==
  \A i \in EdgeIds : NoContext(m_edges[i]) => NonIncreasing(m_edges[i].popped)

Count(seq, v) == Cardinality({k \in 1 .. Len(seq) : seq[k] = v})

\* C2: under every sequence of peek, pop and push_successors on an edge, no
\* cell of the grid is passed to Enqueue more than once.
C2_NoCellReEnqueued ==
  \A i \in EdgeIds : \A c \in Grid : Count(m_edges[i].enqueued, c) <= 1

\* C2 witness: PushSuccessors ran twice on the one popped position (0, 0),
\* whose neighbours were enqueued by the first call.
C2_Witness ==
  \E i \in EdgeIds :
    /\ status = "ok"
    /\ m_edges[i].pushes >= 2
    /\ Len(m_edges[i].popped) = 1
    /\ Count(m_edges[i].enqueued, <<0, 1>>) = 1
    /\ Count(m_edges[i].enqueued, <<1, 0>>) = 1

\* C3: on an edge whose snapshots are not empty, PushSuccessors reads the
\* seen-map only for neighbours inside the grid and the snapshots only at
\* entries they have, and enqueues no neighbour outside the snapshots.
C3_PushWithinBounds ==
  \A i \in EdgeIds : InSnapshots(m_edges[i], 0, 0) =>
    /\ \A r \in m_edges[i].reads :
         /\ r[1] = "seen" => <<r[2], r[3]>> \in Grid
         /\ r[1] = "hypo" => r[2] < Len(m_edges[i].kbest_hypotheses)
         /\ r[1] = "option" => r[3] < Len(m_edges[i].kbest_translations)
    /\ \A k \in 2 .. Len(m_edges[i].enqueued) :   \* the first is Initialize's
         InSnapshots(m_edges[i], m_edges[i].enqueued[k][1], m_edges[i].enqueued[k][2])

\* C4: a neighbour cell of the grid for which PushSuccessors got a null
\* hypothesis is marked seen.
C4_FailedCellMarkedSeen ==
  \A i \in EdgeIds : \A c \in m_edges[i].failed :
    c \in Grid => m_edges[i].seen[SeenIndex(c[1], c[2])]

\* Configuration values the search is run with; FindKBestHypotheses reads
\* neither of them.
CubePruningPopLimit == 2
BeamWidth == 10

Drained(edge) == edge.initialized /\ edge.queue = <<>>

\* The number of pops the last call made.
Cycles == Cardinality({k \in 1 .. Len(call.events) : call.events[k][1] = "Dequeue"})

\* The best total score admitted to the stack so far.
BestAdmitted ==
  CHOOSE s \in {m_stack[k].score : k \in 1 .. Len(m_stack)} :
    \A k \in 1 .. Len(m_stack) : m_stack[k].score <= s

TopWithinBeam(edge) ==
  edge.queue # <<>> /\ Head(edge.queue).hyp.score >= BestAdmitted - BeamWidth

\* C5: when a FindKBestHypotheses call on a container with edges returns, the
\* pop-limit is reached, or every edge is drained, or no edge has a queue top
\* within the beam threshold of the best admitted hypothesis.
C5_RepeatsUntilStop ==
  (call.op = "FindKBestHypotheses" /\ status = "ok" /\ m_edges # <<>>) =>
    \/ Cycles >= CubePruningPopLimit
    \/ \A i \in EdgeIds : Drained(m_edges[i])
    \/ \A i \in EdgeIds : ~TopWithinBeam(m_edges[i])

\* A step of FindKBestHypotheses that chose an edge.
ChoosingStep == call'.op = "FindKBestHypotheses" /\ call'.edge # 0

C6_Step ==
  ChoosingStep =>
    LET b == call'.edge
        peeks == call'.peeks
    IN /\ Len(peeks) = Len(m_edges)
       /\ call'.ret = peeks[b]
       /\ \A i \in EdgeIds :
            /\ peeks[i].hyp.score <= peeks[b].hyp.score
            /\ i < b => peeks[i].hyp.score < peeks[b].hyp.score
            /\ m_edges[i].initialized => peeks[i] = Head(m_edges[i].queue)
            /\ i # b => /\ m_edges'[i].popped = m_edges[i].popped
                        /\ Head(m_edges'[i].queue) = peeks[i]
                        /\ m_edges[i].initialized => m_edges'[i].queue = m_edges[i].queue

C7_Step ==
  ChoosingStep =>
    LET b == call'.edge
        pos == call'.ret
    IN /\ m_edges'[b].popped = Append(m_edges[b].popped, pos)
       /\ m_edges'[b].pushes = m_edges[b].pushes + 1
       /\ \A i \in EdgeIds \ {b} :
            /\ m_edges'[i].popped = m_edges[i].popped
            /\ m_edges'[i].pushes = m_edges[i].pushes
       /\ m_stack' = Append(m_stack, pos.hyp)
       /\ call'.events = << <<"Dequeue", b, pos>>,
                            <<"AddPrune", pos.hyp>>,
                            <<"PushSuccessors", b, pos.x, pos.y>> >>

\* C7: a cycle of FindKBestHypotheses pops one position from the chosen edge,
\* passes that position's hypothesis to AddPrune once, and then calls
\* PushSuccessors on the chosen edge with the popped position's coordinates.
C7_PopAdmitPush == [][C7_Step]_vars

\* C7 witness: a cycle popped a position whose coordinates differ.
C7_Witness ==
  /\ call.op = "FindKBestHypotheses" /\ status = "ok" /\ call.edge # 0
  /\ call.ret.x # call.ret.y

C8_Inv ==
  \A i \in EdgeIds :
    LET e == m_edges[i]
    IN /\ e.inits <= 1
       /\ e.initialized <=> e.inits = 1
       /\ ~e.initialized =>
            /\ e.queue = <<>> /\ e.enqueued = <<>> /\ e.popped = <<>>
            /\ \A slot \in SeenSlots : ~e.seen[slot]
       /\ (call.op = "Dequeue" /\ call.edge = i /\ status = "ok") => e.initialized

C8_Step ==
  \A i \in EdgeIds :
    /\ m_edges[i].initialized => m_edges'[i].initialized
    /\ m_edges'[i].inits > m_edges[i].inits => call'.op = "Dequeue"

\* C8: an edge is unseeded (not initialized, queue empty, nothing seen) until
\* its first peek or pop, which runs Initialize; no other operation does; the
\* initialized flag never returns to false and Initialize runs at most once.
C8_StateMachine == []C8_Inv /\ [][C8_Step]_vars

\* C8 witness: an edge initialized once that has since been peeked or popped
\* and pushed several times.
C8_Witness ==
  \E i \in EdgeIds :
    /\ status = "ok" /\ m_edges[i].inits = 1
    /\ Len(m_edges[i].popped) >= 2 /\ m_edges[i].pushes >= 2
    /\ call.op = "Dequeue"

\* The positions an edge holds or has yielded.
Positions(edge) ==
  {edge.queue[k] : k \in 1 .. Len(edge.queue)}
  \cup {edge.popped[k] : k \in 1 .. Len(edge.popped)}

\* The words the option and its linked options cover.
AllSpans(opt) == opt.span \cup UNION {opt.linked[k] : k \in 1 .. Len(opt.linked)}

\* Every linked option of opt is disjoint from what is covered when its turn
\* comes.
LinkedApply(hypothesis, opt) ==
  \A k \in 1 .. Len(opt.linked) :
    ~Overlap(hypothesis.cov \cup opt.span \cup UNION {opt.linked[m] : m \in 1 .. k - 1},
             opt.linked[k])

\* The hypotheses admitted are the hypotheses of popped positions.
AdmittedWerePopped ==
  \A k \in 1 .. Len(m_stack) :
    \E i \in EdgeIds : \E n \in 1 .. Len(m_edges[i].popped) :
      m_edges[i].popped[n].hyp = m_stack[k]

\* C9: a hypothesis an edge holds, has yielded or the container has admitted
\* for a cell of the snapshots covers the option's span and the span of every
\* linked option, none of which overlapped: no hypothesis carries part of a
\* linked group only.
C9_LinkedAtomic ==
  /\ AdmittedWerePopped
  /\ \A i \in EdgeIds : \A pos \in Positions(m_edges[i]) :
       (InSnapshots(m_edges[i], pos.x, pos.y) /\ ~pos.hyp.null) =>
         LET p == m_edges[i].kbest_hypotheses[pos.x + 1]
             o == m_edges[i].kbest_translations[pos.y + 1]
         IN /\ LinkedApply(p, o)
            /\ pos.hyp.cov = p.cov \cup AllSpans(o)

\* C9 witness: PushSuccessors got no hypothesis for a cell whose option has
\* an overlapping linked option, after one linked option had applied.
C9_Witness ==
  \E i \in EdgeIds : \E c \in m_edges[i].failed :
    /\ status = "ok"
    /\ InSnapshots(m_edges[i], c[1], c[2])
    /\ Len(m_edges[i].kbest_translations[c[2] + 1].linked) = 2

EnqueuedBefore(edge, p, q) ==
  \E k, l \in 1 .. Len(edge.enqueued) :
    k < l /\ edge.enqueued[k] = <<p.x, p.y>> /\ edge.enqueued[l] = <<q.x, q.y>>

C12_Inv ==
  \A i \in EdgeIds :
    LET q == m_edges[i].queue
    IN \A a, b \in 1 .. Len(q) :
         a < b =>
           /\ q[a].hyp.score >= q[b].hyp.score
           /\ (q[a].hyp.score = q[b].hyp.score /\ q[a] # q[b])
                => EnqueuedBefore(m_edges[i], q[a], q[b])

C12_Step ==
  \A i \in EdgeIds :
    (/\ call'.op = "Dequeue" /\ ~call'.keep /\ call'.edge = i
     /\ m_edges[i].initialized /\ m_edges[i].queue # <<>>)
    => /\ call'.ret = m_edges[i].queue[1]
       /\ \A a \in 2 .. Len(m_edges[i].queue) :
            LET other == m_edges[i].queue[a]
            IN /\ call'.ret.hyp.score >= other.hyp.score
               /\ (call'.ret.hyp.score = other.hyp.score /\ call'.ret # other)
                    => EnqueuedBefore(m_edges[i], call'.ret, other)

After(r) == IF r.status = "ok" THEN FindKBest(r.edges, r.stack) ELSE {r}

\* C11: two runs that reached the same state admit the same hypotheses in
\* the same order: whatever the outcomes of the next call and of the call
\* after it, the sequence of admissions is the same.  Stated for containers
\* whose edges all have a cell (0,0).
C11_SameAdmissions ==
  (status = "ok" /\ \A i \in EdgeIds : InSnapshots(m_edges[i], 0, 0)) =>
    \A r1, r2 \in FindKBest(m_edges, m_stack) :
      /\ r1.stack = r2.stack
      /\ \A s1 \in After(r1), s2 \in After(r2) : s1.stack = s2.stack

\* C13: the edge just constructed from the lists call.arg holds in its option
\* snapshot exactly the first min(K, |T|) options of T, in order, and in its
\* hypothesis snapshot exactly the first min(K, |H|) hypotheses of H: each
\* vector has that many elements and they are those of the list.
C13_SnapshotsHoldFirstK ==
  call.op = "AddBackwardsEdge" =>
    LET edge == m_edges[call.edge]
        nT   == Min(KBestCubePruning, Len(call.arg.translations))
        nH   == Min(KBestCubePruning, Len(call.arg.hypotheses))
    IN /\ edge.sizes.kbest_translations = nT
       /\ edge.sizes.kbest_hypotheses = nH
       /\ edge.kbest_translations = SubSeq(call.arg.translations, 1, nT)
       /\ edge.kbest_hypotheses = SubSeq(call.arg.hypotheses, 1, nH)

\* C14 as stated: after P pops from an edge the edge has made at most
\* P + 2 * P calls of CreateHypothesis.
C14_BuildsWithinThreePerPop ==
  \A i \in EdgeIds : Len(m_edges[i].builds) <= 3 * Len(m_edges[i].popped)

\* C14: after P pops from an edge the edge has made at most 1 + 2 * P calls
\* of CreateHypothesis: one for cell (0,0) when the edge is initialized, which
\* the first peek does, and at most two for the successors of each pop.
C14_BuildsBounded ==
  \A i \in EdgeIds : Len(m_edges[i].builds) <= 1 + 2 * Len(m_edges[i].popped)

\* An edge that was popped from and has built as many cells as the bound allows.
C14_Witness ==
  \E i \in EdgeIds :
    /\ Len(m_edges[i].popped) >= 1
    /\ Len(m_edges[i].builds) = 1 + 2 * Len(m_edges[i].popped)

\* The data members of an edge that Dequeue can reach.
Members(edge) == <<edge.queue, edge.seen, edge.initialized>>

C15_Step ==
  \A i \in EdgeIds :
    /\ (/\ call'.op = "Dequeue" /\ call'.keep /\ call'.edge = i
         /\ m_edges[i].initialized)
        => /\ status' = "ok"
           /\ Members(m_edges'[i]) = Members(m_edges[i])
           /\ call'.ret = IF m_edges[i].queue # <<>> THEN m_edges[i].queue[1]
                          ELSE InvalidSquarePosition
    /\ (/\ call.op = "Dequeue" /\ call.keep /\ call.edge = i
         /\ call'.op = "Dequeue" /\ call'.edge = i)
        => call'.ret = call.ret

\* C15: a peek of an initialized edge returns the top of the queue and leaves
\* the queue, the seen-map and the initialized flag as they are; a peek or a
\* pop made directly after a peek returns the position that peek returned.
C15_PeekKeeps == [][C15_Step]_vars

\* A peek of an edge that had been popped from before returned the top of a
\* queue that still holds it.
C15_Witness ==
  \E i \in EdgeIds :
    /\ call.op = "Dequeue" /\ call.keep /\ call.edge = i
    /\ m_edges[i].popped # <<>>
    /\ m_edges[i].queue # <<>>
    /\ call.ret = m_edges[i].queue[1]

\* A pop of edge i that finds the queue non-empty.
PopStep(i) ==
  /\ call'.op = "Dequeue" /\ ~call'.keep /\ call'.edge = i
  /\ m_edges[i].initialized /\ m_edges[i].queue # <<>>

\* The pop of edge i returns the queued position of the highest total score
\* and removes that position and no other from the queue; the seen-map stays.
PopRemovesTop(i) ==
  LET q == m_edges[i].queue
  IN /\ status' = "ok"
     /\ call'.ret = q[1]
     /\ \A a \in 1 .. Len(q) : call'.ret.hyp.score >= q[a].hyp.score
     /\ Len(m_edges'[i].queue) = Len(q) - 1
     /\ m_edges'[i].queue = Tail(q)
     /\ m_edges'[i].seen = m_edges[i].seen

\* What an edge holds besides its queue.
OtherMembers(edge) ==
  <<edge.seen, edge.initialized, edge.kbest_hypotheses, edge.kbest_translations,
    edge.sizes>>

\* C16 as stated: the pop returns and removes the top and marks it as popped,
\* that is, the edge records the pop somewhere besides the queue.
C16_PopMarksPopped ==
  [][\A i \in EdgeIds :
       PopStep(i) => /\ PopRemovesTop(i)
                     /\ OtherMembers(m_edges'[i]) # OtherMembers(m_edges[i])]_vars

\* C16: the pop returns the queued position of the highest total score and
\* removes that position and no other from the queue; it writes nothing
\* else, so the cell stays seen and is marked in no other way.
C16_PopRemovesTop ==
  [][\A i \in EdgeIds :
       PopStep(i) => /\ PopRemovesTop(i)
                     /\ OtherMembers(m_edges'[i]) = OtherMembers(m_edges[i])]_vars

\* A pop took the top from a queue of two and left the other one; the popped
\* cell is still seen.
C16_Witness ==
  \E i \in EdgeIds :
    /\ call.op = "Dequeue" /\ ~call.keep /\ call.edge = i /\ status = "ok"
    /\ Len(m_edges[i].popped) >= 2
    /\ call.ret = m_edges[i].popped[Len(m_edges[i].popped)]
    /\ m_edges[i].queue # <<>>
    /\ <<call.ret.x, call.ret.y>> \in Grid
    /\ m_edges[i].seen[SeenIndex(call.ret.x, call.ret.y)]

\* The first Dequeue of edge i, which calls Initialize.
SeedingStep(i) ==
  /\ call'.op = "Dequeue" /\ call'.edge = i
  /\ ~m_edges[i].initialized
  /\ InSnapshots(m_edges[i], 0, 0)

\* The position Initialize enqueues: cell (0,0) with the hypothesis built
\* from the first predecessor and the first option.
SeedPosition(edge) ==
  [hyp |-> CreateHypothesis(edge.kbest_hypotheses[1], edge.kbest_translations[1]).hyp,
   x |-> 0, y |-> 0]

\* C17: the Initialize call of the first Dequeue builds the hypothesis of cell
\* (0,0) from the best predecessor and the best option, enqueues it, marks
\* (0,0) seen and sets the flag: after a first peek the queue holds that
\* position and nothing else (after a first pop it is the position popped and
\* the queue is empty), and slot (0,0) is the only one marked seen.
C17_InitializeSeeds ==
  [][\A i \in EdgeIds :
       SeedingStep(i) =>
         LET after == m_edges'[i]
         IN /\ status' = "ok"
            /\ after.initialized
            /\ after.inits = 1
            /\ after.builds = << <<0, 0>> >>
            /\ after.enqueued = << <<0, 0>> >>
            /\ after.queue \o after.popped = <<SeedPosition(m_edges[i])>>
            /\ call'.keep => Len(after.queue) = 1
            /\ call'.ret = SeedPosition(m_edges[i])
            /\ \A k \in SeenSlots : after.seen[k] <=> k = SeenIndex(0, 0)]_vars

\* A first peek left the edge initialized with the one position (0,0) queued.
C17_Witness ==
  \E i \in EdgeIds :
    /\ call.op = "Dequeue" /\ call.keep /\ call.edge = i /\ status = "ok"
    /\ m_edges[i].initialized /\ m_edges[i].inits = 1
    /\ m_edges[i].popped = <<>> /\ m_edges[i].pushes = 0
    /\ Len(m_edges[i].queue) = 1
    /\ <<m_edges[i].queue[1].x, m_edges[i].queue[1].y>> = <<0, 0>>
    /\ ~m_edges[i].queue[1].hyp.null
    /\ m_edges[i].seen[0]

\* The lowest total score among the hypotheses admitted to the stack.
LowestAdmitted ==
  CHOOSE s \in {m_stack[k].score : k \in 1 .. Len(m_stack)} :
    \A k \in 1 .. Len(m_stack) : m_stack[k].score >= s

\* The cells of the grid of an edge that have a hypothesis and are not
\* marked seen.
UnseenCells(edge) ==
  { c \in Grid :
      /\ InSnapshots(edge, c[1], c[2])
      /\ ~edge.seen[SeenIndex(c[1], c[2])]
      /\ LET r == CreateHypothesis(edge.kbest_hypotheses[c[1] + 1],
                                   edge.kbest_translations[c[2] + 1])
         IN r.status = "ok" /\ ~r.hyp.null }

CellScore(edge, c) ==
  CreateHypothesis(edge.kbest_hypotheses[c[1] + 1], edge.kbest_translations[c[2] + 1]).hyp.score

\* A FindKBestHypotheses call has returned and something is admitted.
Completed == call.op = "FindKBestHypotheses" /\ status = "ok" /\ m_stack # <<>>

AllApplicable(edge) ==
  \A x \in 0 .. Len(edge.kbest_hypotheses) - 1 :
    \A y \in 0 .. Len(edge.kbest_translations) - 1 :
      LET r == CreateHypothesis(edge.kbest_hypotheses[x + 1], edge.kbest_translations[y + 1])
      IN r.status = "ok" /\ ~r.hyp.null

\* The cell scores of every edge are sums of a component per axis and no
\* cell is without a hypothesis.
PlainGrids == \A i \in EdgeIds : NoContext(m_edges[i]) /\ AllApplicable(m_edges[i])

C20_SizeWithinLimit == Cardinality(m_hypotheses) <= MaxHypoStackSize + StackSlack

\* C21: a FindKBestHypotheses call on a container without edges returns at
\* once: nothing is admitted to the stack, the hypothesis set of the
\* container and its (empty) edge set are as before, and the process goes on.
C21_EmptyReturns ==
  [][(m_edges = <<>> /\ call'.op = "FindKBestHypotheses")
       => /\ m_stack' = m_stack
          /\ m_hypotheses' = m_hypotheses
          /\ m_edges' = m_edges
          /\ status' = "ok"
          /\ call'.edge = 0 /\ call'.peeks = <<>> /\ call'.events = <<>>]_vars

\* FindKBestHypotheses has returned on a container without edges that holds
\* hypotheses.
C21_Witness ==
  /\ call.op = "FindKBestHypotheses" /\ status = "ok"
  /\ m_edges = <<>> /\ m_stack = <<>>
  /\ m_hypotheses # {}

\* C22: every CalcScore call is made on a hypothesis that carries all the
\* linked options of its option, and none is made for an extension that ends
\* up rejected.
C22_ScoredWhenComplete ==
  \A i \in EdgeIds : \A s \in m_edges[i].scored :
    s.carried = s.linked /\ ~s.null

\* C23: every position in the queue of an edge carries a hypothesis (not the
\* null pointer).
C23_QueuedNonNull ==
  \A i \in EdgeIds : \A k \in 1 .. Len(m_edges[i].queue) :
    ~m_edges[i].queue[k].hyp.null

\* C24: when FindKBestHypotheses has run on a container with edges, no
\* position it peeked was the invalid position (whose null hypothesis line
\* 257 would read), the assertion of line 263 did not fail, and the position
\* it popped was not the invalid one.
C24_NoSentinelRead ==
  (call.op = "FindKBestHypotheses" /\ m_edges # <<>>) =>
    /\ \A k \in 1 .. Len(call.peeks) : call.peeks[k] # InvalidSquarePosition
    /\ ~(status = "abort" /\ call.edge = 0 /\ Len(call.peeks) = Len(m_edges))
    /\ call.edge # 0 => call.ret # InvalidSquarePosition

\* C25: a peek or a pop on a drained edge (initialized, queue empty) returns
\* the invalid position (null hypothesis, coordinates (-1,-1)) and leaves the
\* queue, the seen-map, the initialized flag and everything else of the edge
\* as they were; so every call in that state returns the same position.
C25_DrainedReturnsSentinel ==
  [][\A i \in EdgeIds :
       (Drained(m_edges[i]) /\ call'.op = "Dequeue" /\ call'.edge = i)
         => /\ call'.ret = InvalidSquarePosition
            /\ call'.ret.hyp.null /\ call'.ret.x = 0 - 1 /\ call'.ret.y = 0 - 1
            /\ m_edges'[i] = m_edges[i]
            /\ status' = "ok"]_vars

\* A drained edge that has popped something has just been peeked, after a pop
\* had already answered with the invalid position.
C25_Witness ==
  /\ m_edges # <<>> /\ Drained(m_edges[1]) /\ m_edges[1].popped # <<>>
  /\ call.op = "Dequeue" /\ call.edge = 1 /\ call.keep
  /\ call.ret = InvalidSquarePosition /\ status = "ok"

\* The edge as Initialize leaves an unseeded edge: flagged, one position for
\* cell (0,0) queued, slot 0 of the seen-map set and no other, nothing popped.
FreshlySeeded(before, after) ==
  /\ ~before.initialized /\ after.initialized
  /\ Len(after.queue) = 1 /\ after.queue[1].x = 0 /\ after.queue[1].y = 0
  /\ after.seen = [s \in SeenSlots |-> s = 0]
  /\ after.enqueued = << <<0, 0>> >>
  /\ after.popped = <<>> /\ after.pushes = 0

\* C26: one select-pop cycle of FindKBestHypotheses removes one position, from
\* the queue of one edge, and enqueues successors on that edge only: every
\* other edge keeps its queue and its seen-map (and all the rest), except that
\* an edge that was not seeded yet is now initialized with (0,0) queued.
C26_Step ==
  (call'.op = "FindKBestHypotheses" /\ status' = "ok" /\ call'.edge # 0) =>
    LET b == call'.edge
    IN /\ Len(m_edges') = Len(m_edges)
       /\ m_edges'[b].popped = Append(m_edges[b].popped, call'.ret)
       /\ m_edges'[b].pushes = m_edges[b].pushes + 1
       /\ \A i \in 1 .. Len(m_edges) :
            i # b => \/ m_edges[i].initialized /\ m_edges'[i] = m_edges[i]
                     \/ FreshlySeeded(m_edges[i], m_edges'[i])

C26_OneEdgePerCycle == [][C26_Step]_vars

\* A cycle has popped from one of two edges and queued successors there, the
\* other edge having been seeded before the call.
C26_Witness ==
  /\ call.op = "FindKBestHypotheses" /\ status = "ok" /\ call.edge # 0
  /\ Len(m_edges) = 2
  /\ LET o == 3 - call.edge
     IN /\ m_edges[o].initialized /\ Len(m_edges[o].queue) = 1
        /\ Len(m_edges[o].popped) + Len(m_edges[call.edge].popped) >= 2
  /\ Len(m_edges[call.edge].enqueued) > 1

\* C27: every cell that is queued or was popped is marked in the seen-map
\* under its own index K*x+y, two different enqueued cells have different
\* slots, and the number of marked slots is the number of Enqueue calls, which
\* is the size of the queue plus the number of pops.
C27_SeenMatchesEnqueued ==
  \A i \in EdgeIds :
    LET e == m_edges[i]
        cell(k) == e.enqueued[k]
        slot(k) == SeenIndex(cell(k)[1], cell(k)[2])
        n == Len(e.enqueued)
    IN /\ \A k \in 1 .. n : slot(k) \in SeenSlots /\ e.seen[slot(k)]
       /\ \A k, l \in 1 .. n : cell(k) # cell(l) => slot(k) # slot(l)
       /\ Cardinality({s \in SeenSlots : e.seen[s]}) = n
       /\ n = Len(e.queue) + Len(e.popped)

\* C28: when an edge has been destroyed, every position Enqueue allocated has
\* been deleted: the destructor's loop has emptied the queue, deleting each
\* position it removed, and the positions removed by pops are deleted too.
C28_AllPositionsReleased ==
  status = "destroyed" =>
    \A i \in EdgeIds :
      /\ m_edges[i].queue = <<>>
      /\ Len(m_edges[i].freed) = Len(m_edges[i].enqueued)

\* C29: for the mapping lines that pass the format checks of LoadDecodeGraphs
\* (two tokens, or three tokens with a graph index equal to the previous one
\* or one above it), every decode step is added to a graph that exists (its
\* index is below the number of graphs created so far), and the graphs carry
\* the contiguous indices 0, 1, 2, ...
C29_StepsAddedToExistingGraphs ==
  /\ \A k \in 1 .. Len(staticData.adds) :
       staticData.adds[k].graph < staticData.adds[k].size
  /\ \A j \in 1 .. Len(staticData.m_decodeGraphs) :
       staticData.m_decodeGraphs[j].id = j - 1

\* The stack diversity the parameters ask for.
AskedDiversity(param) ==
  IF param.stack_diversity = <<>> THEN 0 ELSE Scan(param.stack_diversity[1])

\* C30: LoadData returns false at the stack-diversity parameter exactly when
\* the diversity asked for is above 0 and the distortion limit is above 15 or
\* the input is a word lattice; a diversity of 0, or no parameter, is
\* accepted and leaves the minimal stack diversity 0.
C30_DiversityRejectedExactly ==
  call.op = "LoadData" =>
    LET param == call.arg
        rejected == call.ret.at = "stack-diversity" /\ ~call.ret.ret
    IN /\ rejected <=> /\ AskedDiversity(param) > 0
                       /\ \/ staticData.m_maxDistortion > 15
                          \/ staticData.m_inputType = WordLatticeInput
       /\ AskedDiversity(param) = 0 =>
            ~rejected /\ staticData.m_minHypoStackDiversity = 0

\* C32: SetBooleanParameter leaves the flag at the default value when the
\* parameter is not specified, at true when it is specified without a value,
\* and at the parsed value when it is specified with exactly one value; and
\* what it leaves depends on the parameter's presence, its values and the
\* default only, not on the value the flag had before.
C32_Step ==
  call'.op = "SetBooleanParameter" =>
    LET arg == call'.arg
        now == staticData'[arg.flag]
    IN /\ arg.params.null => now = arg.defaultValue
       /\ (~arg.params.null /\ Len(arg.params.vec) = 0) => now = TRUE
       /\ (~arg.params.null /\ Len(arg.params.vec) = 1) => now = ScanBool(arg.params.vec[1])
       /\ \A before \in BOOLEAN :
            SetBooleanParameter(before, arg.params, arg.defaultValue) = now
       /\ \A other \in BoolFlags \ {arg.flag} : staticData'[other] = staticData[other]

C32_FlagFromParameterOnly == [][C32_Step]_vars

\* A call with two values and the default false has left its flag false,
\* while another flag, set by an earlier call, is true.
C32_Witness ==
  /\ call.op = "SetBooleanParameter"
  /\ Len(call.arg.params.vec) = 2 /\ ~call.arg.defaultValue
  /\ ~staticData[call.arg.flag]
  /\ \E other \in BoolFlags \ {call.arg.flag} : staticData[other]

\* An option is enabled by its parameter given without a value or with one
\* value that reads as true.
Enabled(p) == ~p.null /\ (Len(p.vec) = 0 \/ (Len(p.vec) = 1 /\ ScanBool(p.vec[1])))

EnabledOptions(param) ==
  { o \in {"minimum-bayes-risk", "lminimum-bayes-risk", "consensus-decoding"} :
      \/ o = "minimum-bayes-risk" /\ Enabled(param.minimum_bayes_risk)
      \/ o = "lminimum-bayes-risk" /\ Enabled(param.lminimum_bayes_risk)
      \/ o = "consensus-decoding" /\ Enabled(param.consensus_decoding) }

Loaded == call.op = "LoadData" /\ status = "ok" /\ call.ret.ret

\* C31: LoadData succeeds only with at most one of minimum-bayes-risk,
\* lminimum-bayes-risk and consensus-decoding enabled: with two or more it
\* returns false or exits; and after a successful load with lattice MBR or
\* consensus decoding enabled the MBR flag is true.
C31_OneDecodingOption ==
  call.op = "LoadData" =>
    LET n == Cardinality(EnabledOptions(call.arg))
    IN /\ Loaded => n <= 1
       /\ n >= 2 => \/ status = "exit"
                    \/ status = "ok" /\ ~call.ret.ret
       /\ (Loaded /\ EnabledOptions(call.arg) \cap {"lminimum-bayes-risk", "consensus-decoding"} # {})
            => staticData.m_mbr

\* A load has succeeded with lattice MBR enabled by the value "true" and
\* neither of the other two options enabled.
C31_Witness ==
  /\ Loaded
  /\ call.arg.lminimum_bayes_risk.vec = << <<"t", "r", "u", "e">> >>
  /\ EnabledOptions(call.arg) = {"lminimum-bayes-risk"}
  /\ staticData.m_useLatticeMBR /\ staticData.m_mbr

\* The id an id line names, for a line that names one.
IdOf(line) == [k \in 1 .. Len(line[1]) - Len(IdPrefix) |-> line[1][k + Len(IdPrefix)]]

\* Line i is an id line whose id is "default" or the id of an earlier id line.
RedefinesId(lines, i) ==
  /\ IsIdLine(lines[i])
  /\ \/ IdOf(lines[i]) = DefaultId
     \/ \E j \in 1 .. i - 1 : IsIdLine(lines[j]) /\ IdOf(lines[j]) = IdOf(lines[i])

\* The id lines that set currentId before line i, in the order of the lines.
IdsBefore(i) == SelectSeq(staticData.ids, LAMBDA e : e.line < i)

\* C33: LoadAlternateWeightSettings fails when the thread count is above 1;
\* it raises an error when an id line names an id that is already defined
\* ("default" included) and when a weight line comes before any id line; and
\* when it succeeds the setting "default" is a copy of the main weights and
\* every weight line has been assigned to the setting of the last id line
\* before it.
C33_AlternateWeightsInOrder ==
  (/\ call.op = "LoadData" /\ call.arg.alternate_weight_setting # <<>>
   /\ call.ret.at \in {"end", "alternate-weight-setting"}) =>
    LET lines == call.arg.alternate_weight_setting
        named == \A i \in 1 .. Len(lines) : IsIdLine(lines[i]) => IdOf(lines[i]) # <<>>
    IN /\ staticData.m_threadCount > 1 =>
            status = "ok" /\ ~call.ret.ret /\ staticData.m_weightSetting = <<>>
       /\ (/\ staticData.m_threadCount <= 1 /\ named
           /\ \/ \E i \in 1 .. Len(lines) : RedefinesId(lines, i)
              \/ ~IsIdLine(lines[1]))
            => status = "throw"
       /\ Loaded =>
            /\ DefaultId \in DOMAIN staticData.m_weightSetting
            /\ staticData.m_weightSetting[DefaultId] = staticData.m_allWeights
            /\ \A i \in 1 .. Len(lines) :
                 ~IsIdLine(lines[i]) =>
                   /\ IdsBefore(i) # <<>>
                   /\ \E k \in 1 .. Len(staticData.assigned) :
                        LET a == staticData.assigned[k]
                        IN /\ a.line = i
                           /\ a.id = IdsBefore(i)[Len(IdsBefore(i))].id
                           /\ a.id \in DOMAIN staticData.m_weightSetting
                           /\ (\A l \in k + 1 .. Len(staticData.assigned) :
                                 ~(staticData.assigned[l].id = a.id
                                   /\ staticData.assigned[l].name = a.name))
                                => staticData.m_weightSetting[a.id][a.name] = a.weights

\* A load has succeeded on a specification of two id lines followed by a
\* weight line, which went to the setting of the second id.
C33_Witness ==
  /\ Loaded
  /\ Len(staticData.ids) = 2 /\ Len(staticData.assigned) = 1
  /\ staticData.assigned[1].line = 3
  /\ staticData.assigned[1].id = staticData.ids[2].id
  /\ staticData.m_weightSetting[DefaultId] = MainWeights
====
